---- MODULE Spec2Model ----
(***************************************************************************)
(* A model of gip's Condor information provider, condor_common.py:         *)
(*   - ClassAdParser, the SAX content handler that turns the stream of     *)
(*     <c>/<a> elements into a dictionary of ClassAds,                     *)
(*   - getGroupInfo, getJobsInfo and parseNodes, the three aggregators,    *)
(*   - getLrmsInfo, the version query.                                     *)
(*                                                                         *)
(* Python values are modelled as follows.                                  *)
(*   str   a sequence of one-character strings (so that split, strip,      *)
(*         startswith, lower and int can be computed character by          *)
(*         character); attribute names and dictionary keys of summaries    *)
(*         that the code only compares are TLA+ strings.                   *)
(*   dict  a function with a finite domain.                                *)
(*   a dict object that is shared by reference (curCaInfo and the values   *)
(*         of caInfo) lives in a heap, a sequence of dicts; the reference  *)
(*         is its index.                                                   *)
(***************************************************************************)
EXTENDS Integers, Sequences, FiniteSets, TLC

VARIABLES
    \* ---- ClassAdParser driven event by event (SpecParser)
    ctor,       \* the constructor's arguments [idx, attrlist]
    pst,        \* [self |-> the handler's attributes, heap |-> dict objects]
    xml,        \* the stack of open elements of the document being read
    phase,      \* "new" | "parsing" | "parsed"
    g_name,     \* history: the name the last attribute-start carried ("Unknown" if none)
    g_chunks,   \* history: the chunks received since the last attribute-start
    g_elem,     \* history: <<name, text>> of the attributes closed in the open record element
    g_raw,      \* history: index value -> attributes of the last record element carrying it
    g_count,    \* history: number of record elements closed with a non-empty index value
    g_nev,      \* history: number of start tags and chunks delivered inside the root
    g_last,     \* history: the last event delivered
    \* ---- getJobsInfo (SpecJobs)
    jobs,       \* the state of one call of getJobsInfo
    \* ---- getGroupInfo (SpecGroups)
    grp,        \* the state of one call of getGroupInfo
    \* ---- parseNodes (SpecNodes)
    nodes,      \* the state of one call of parseNodes
    \* ---- getLrmsInfo (SpecLrms)
    lrms        \* the state of one call of getLrmsInfo

parserVars == <<ctor, pst, xml, phase, g_name, g_chunks, g_elem, g_raw, g_count, g_nev, g_last>>
vars == <<ctor, pst, xml, phase, g_name, g_chunks, g_elem, g_raw, g_count, g_nev, g_last,
          jobs, grp, nodes, lrms>>

(***************************************************************************)
(* Bounds of the model.                                                    *)
(***************************************************************************)
\* start tags and chunks of character data inside the root element of a stream
\* that is driven event by event (end tags are not counted: an open element can
\* always be closed)
MaxEvents == 7

(***************************************************************************)
(* Python dictionaries.                                                    *)
(***************************************************************************)
EmptyDict == [k \in {} |-> 0]

\* d[k] = v
DictPut(d, k, v) == [x \in (DOMAIN d) \cup {k} |-> IF x = k THEN v ELSE d[x]]

\* the object's attributes after  self.<f> = v
SetAttr(self, f, v) == [x \in (DOMAIN self) \cup {f} |-> IF x = f THEN v ELSE self[x]]

(***************************************************************************)
(* Python strings, as sequences of characters.                             *)
(***************************************************************************)
RECURSIVE Flatten(_)
\* the concatenation of a sequence of strings, in order
Flatten(ss) == IF ss = <<>> THEN <<>> ELSE Head(ss) \o Flatten(Tail(ss))

\* the members of a sequence
Range(s) == {s[i] : i \in 1..Len(s)}

\* the characters str.strip() and int() treat as white space: space, tab,
\* line feed, carriage return, form feed and vertical tab (the last one is
\* written as the character itself)
Whitespace == {" ", "\t", "\n", "\r", "\f", ""}

RECURSIVE lstrip(_)
\* str.lstrip()
lstrip(s) == IF s # <<>> /\ Head(s) \in Whitespace THEN lstrip(Tail(s)) ELSE s

RECURSIVE rstrip(_)
\* str.rstrip()
rstrip(s) ==
    IF s # <<>> /\ s[Len(s)] \in Whitespace THEN rstrip(SubSeq(s, 1, Len(s) - 1)) ELSE s

\* str.strip()
strip(s) == rstrip(lstrip(s))

\* str.startswith(prefix)
startswith(s, prefix) ==
    Len(s) >= Len(prefix) /\ SubSeq(s, 1, Len(prefix)) = prefix

RECURSIVE split(_, _)
\* str.split(sep) for a one-character separator: the list of segments
split(s, sep) ==
    IF \E i \in 1..Len(s) : s[i] = sep
    THEN LET i == CHOOSE j \in 1..Len(s) :
                      s[j] = sep /\ \A m \in 1..(j-1) : s[m] # sep
         IN  <<SubSeq(s, 1, i - 1)>> \o split(SubSeq(s, i + 1, Len(s)), sep)
    ELSE <<s>>

UpperCase ==
    <<"A","B","C","D","E","F","G","H","I","J","K","L","M",
      "N","O","P","Q","R","S","T","U","V","W","X","Y","Z">>

LowerCase ==
    <<"a","b","c","d","e","f","g","h","i","j","k","l","m",
      "n","o","p","q","r","s","t","u","v","w","x","y","z">>

\* str.lower()
lower(s) ==
    [i \in 1..Len(s) |->
        IF s[i] \in Range(UpperCase)
        THEN LowerCase[CHOOSE j \in 1..Len(UpperCase) : UpperCase[j] = s[i]]
        ELSE s[i]]

Digits == <<"0","1","2","3","4","5","6","7","8","9">>

\* the digits of a decimal literal: the text without surrounding white
\* space, without one leading sign and without the white space that follows
\* the sign (Python 2 skips it: int('- 5') is -5)
IntBody(s) ==
    LET t == strip(s)
    IN  IF t # <<>> /\ Head(t) \in {"+", "-"} THEN lstrip(Tail(t)) ELSE t

\* whether int(s) returns (TRUE) or raises ValueError (FALSE)
int_valid(s) ==
    LET b == IntBody(s)
    IN  b # <<>> /\ \A i \in 1..Len(b) : b[i] \in Range(Digits)

RECURSIVE DigitsValue(_)
DigitsValue(b) ==
    IF b = <<>> THEN 0
    ELSE 10 * DigitsValue(SubSeq(b, 1, Len(b) - 1))
           + ((CHOOSE j \in 1..10 : Digits[j] = b[Len(b)]) - 1)

\* int(s), for a text with int_valid(s)
int(s) ==
    LET t == strip(s)
    IN  IF Head(t) = "-" THEN 0 - DigitsValue(IntBody(s)) ELSE DigitsValue(IntBody(s))

(***************************************************************************)
(* ClassAdParser.  A handler state st is [self |-> attributes of the       *)
(* handler object, heap |-> the dict objects created so far].  Reading an  *)
(* attribute that was never assigned (Python's AttributeError) is an       *)
(* application of self outside its domain.                                 *)
(***************************************************************************)

\* __init__ as it would be without lines 49-50 (the index attribute is not
\* added to a non-empty allow-list)
ClassAdParser_idxNotAdded(idx, attrlist) ==
    [attrlist |-> attrlist, idxAttr |-> idx]

\* ClassAdParser.__init__: the attributes of the new handler
ClassAdParser(idx, attrlist) ==
    LET copy == attrlist
        al   == IF copy # <<>> /\ idx \notin Range(copy)
                THEN Append(copy, idx) ELSE copy
    IN  [attrlist |-> al, idxAttr |-> idx]

\* ClassAdParser.startDocument
startDocument(st) ==
    [st EXCEPT !.self = SetAttr(SetAttr(st.self, "attrInfo", <<>>), "caInfo", EmptyDict)]

\* startElement as it would be if 'c' went on with a copy of the record in
\* progress instead of starting an empty one
startElement_recordKept(st, name, attrs) ==
    IF name = "c"
    THEN [self |-> SetAttr(st.self, "curCaInfo", Len(st.heap) + 1),
          heap |-> Append(st.heap, IF "curCaInfo" \in DOMAIN st.self
                                   THEN st.heap[st.self.curCaInfo] ELSE EmptyDict)]
    ELSE IF name = "a"
    THEN LET n == IF "n" \in DOMAIN attrs THEN attrs["n"] ELSE "Unknown"
         IN  [st EXCEPT !.self = SetAttr(SetAttr(st.self, "attrName", n), "attrInfo", <<>>)]
    ELSE st

\* startElement as it would be if 'a' kept the buffer instead of emptying it
startElement_bufferKept(st, name, attrs) ==
    IF name = "c"
    THEN [self |-> SetAttr(st.self, "curCaInfo", Len(st.heap) + 1),
          heap |-> Append(st.heap, EmptyDict)]
    ELSE IF name = "a"
    THEN LET n == IF "n" \in DOMAIN attrs THEN attrs["n"] ELSE "Unknown"
         IN  [st EXCEPT !.self = SetAttr(st.self, "attrName", n)]
    ELSE st

\* startElement as it would be if 'c' emptied the dict object of the last
\* record (curCaInfo.clear()) instead of making a new one
startElement_recordCleared(st, name, attrs) ==
    IF name = "c"
    THEN IF "curCaInfo" \in DOMAIN st.self
         THEN [st EXCEPT !.heap[st.self.curCaInfo] = EmptyDict]
         ELSE [self |-> SetAttr(st.self, "curCaInfo", Len(st.heap) + 1),
               heap |-> Append(st.heap, EmptyDict)]
    ELSE IF name = "a"
    THEN LET n == IF "n" \in DOMAIN attrs THEN attrs["n"] ELSE "Unknown"
         IN  [st EXCEPT !.self = SetAttr(SetAttr(st.self, "attrName", n), "attrInfo", <<>>)]
    ELSE st

\* ClassAdParser.startElement; attrs is the element's attribute dict
startElement(st, name, attrs) ==
    IF name = "c"
    THEN [self |-> SetAttr(st.self, "curCaInfo", Len(st.heap) + 1),
          heap |-> Append(st.heap, EmptyDict)]
    ELSE IF name = "a"
    THEN LET n == IF "n" \in DOMAIN attrs THEN attrs["n"] ELSE "Unknown"
         IN  [st EXCEPT !.self = SetAttr(SetAttr(st.self, "attrName", n), "attrInfo", <<>>)]
    ELSE st

\* endElement as it would be if 'a' committed every attribute, allow-list or not
endElement_noFilter(st, name) ==
    IF name = "c"
    THEN LET cur    == st.heap[st.self.curCaInfo]
             hasIdx == st.self.idxAttr \in DOMAIN cur
         IN  IF hasIdx /\ cur[st.self.idxAttr] # <<>>
             THEN [st EXCEPT !.self = SetAttr(st.self, "caInfo",
                       DictPut(st.self.caInfo, cur[st.self.idxAttr], st.self.curCaInfo))]
             ELSE st
    ELSE IF name = "a"
    THEN [st EXCEPT !.heap[st.self.curCaInfo] =
                   DictPut(@, st.self.attrName, st.self.attrInfo)]
    ELSE st

\* endElement as it would be if 'c' tested idx against None only (an empty
\* index value is stored)
endElement_emptyIndexKept(st, name) ==
    IF name = "c"
    THEN LET cur    == st.heap[st.self.curCaInfo]
             hasIdx == st.self.idxAttr \in DOMAIN cur
         IN  IF hasIdx
             THEN [st EXCEPT !.self = SetAttr(st.self, "caInfo",
                       DictPut(st.self.caInfo, cur[st.self.idxAttr], st.self.curCaInfo))]
             ELSE st
    ELSE IF name = "a"
    THEN IF st.self.attrName \in Range(st.self.attrlist) \/ Len(st.self.attrlist) = 0
         THEN [st EXCEPT !.heap[st.self.curCaInfo] =
                   DictPut(@, st.self.attrName, st.self.attrInfo)]
         ELSE st
    ELSE st

\* ClassAdParser.endElement
endElement(st, name) ==
    IF name = "c"
    THEN LET cur    == st.heap[st.self.curCaInfo]
             hasIdx == st.self.idxAttr \in DOMAIN cur
         IN  IF hasIdx /\ cur[st.self.idxAttr] # <<>>
             THEN [st EXCEPT !.self = SetAttr(st.self, "caInfo",
                       DictPut(st.self.caInfo, cur[st.self.idxAttr], st.self.curCaInfo))]
             ELSE st
    ELSE IF name = "a"
    THEN IF st.self.attrName \in Range(st.self.attrlist) \/ Len(st.self.attrlist) = 0
         THEN [st EXCEPT !.heap[st.self.curCaInfo] =
                   DictPut(@, st.self.attrName, st.self.attrInfo)]
         ELSE st
    ELSE st

\* ClassAdParser.characters (str(ch) is the identity on the ASCII text modelled)
characters(st, ch) ==
    [st EXCEPT !.self = SetAttr(st.self, "attrInfo", st.self.attrInfo \o ch)]

\* ClassAdParser.getClassAds, with the record objects read from the heap
getClassAds(st) ==
    [k \in DOMAIN st.self.caInfo |-> st.heap[st.self.caInfo[k]]]

(***************************************************************************)
(* SpecParser: one handler, constructed with any of Ctors, fed the events  *)
(* of a well-formed document of the two-level shape                        *)
(*   <classads> (<c> (<a n=..> text (<s> text </s>)* </a>)* </c>)*         *)
(*   </classads>                                                           *)
(* with character data anywhere inside the root element.                   *)
(***************************************************************************)
\* the constructor calls modelled: the index attribute and the allow-list
Ctors ==
    { [idx |-> "Name", attrlist |-> <<>>],
      [idx |-> "Name", attrlist |-> <<"State">>],
      [idx |-> "Name", attrlist |-> <<"Name", "State">>] }

\* the attribute dicts an <a> element arrives with: no n, or one of two names
AttrsChoices ==
    {EmptyDict} \cup {[k \in {"n"} |-> x] : x \in {"Name", "State"}}

\* the chunks of character data delivered by the SAX parser
Chunks == {<<"x">>, <<"y">>}

NoAttrs == EmptyDict

\* the value of an aggregator's variable in a specification that does not run it
Idle == [pc |-> "idle"]

InitParser ==
    /\ ctor \in Ctors
    /\ pst = [self |-> ClassAdParser(ctor.idx, ctor.attrlist), heap |-> <<>>]
    /\ xml = <<>>
    /\ phase = "new"
    /\ g_name = "Unknown"
    /\ g_chunks = <<>>
    /\ g_elem = <<>>
    /\ g_raw = EmptyDict
    /\ g_count = 0
    /\ g_nev = 0
    /\ g_last = "init"
    /\ jobs = Idle /\ grp = Idle /\ nodes = Idle /\ lrms = Idle

\* the last-wins dictionary of a sequence of <<name, text>> pairs
RawDict(elem) ==
    [n \in {elem[i][1] : i \in 1..Len(elem)} |->
        elem[CHOOSE i \in 1..Len(elem) :
                /\ elem[i][1] = n
                /\ \A j \in (i+1)..Len(elem) : elem[j][1] # n][2]]

Top(s) == s[Len(s)]

StartDocument ==
    /\ phase = "new"
    /\ phase' = "parsing"
    /\ pst' = startDocument(pst)
    /\ g_last' = "startDocument"
    /\ UNCHANGED <<ctor, xml, g_name, g_chunks, g_elem, g_raw, g_count, g_nev>>
    /\ UNCHANGED <<jobs, grp, nodes, lrms>>

\* <classads>
StartRoot ==
    /\ phase = "parsing" /\ xml = <<>> /\ g_last = "startDocument"
    /\ pst' = startElement(pst, "classads", NoAttrs)
    /\ xml' = <<"classads">>
    /\ g_last' = "startRoot"
    /\ UNCHANGED <<ctor, phase, g_name, g_chunks, g_elem, g_raw, g_count, g_nev>>
    /\ UNCHANGED <<jobs, grp, nodes, lrms>>

\* <c>
StartC ==
    /\ phase = "parsing" /\ xml = <<"classads">> /\ g_nev < MaxEvents
    /\ pst' = startElement(pst, "c", NoAttrs)
    /\ xml' = Append(xml, "c")
    /\ g_elem' = <<>>
    /\ g_nev' = g_nev + 1
    /\ g_last' = "startC"
    /\ UNCHANGED <<ctor, phase, g_name, g_chunks, g_raw, g_count>>
    /\ UNCHANGED <<jobs, grp, nodes, lrms>>

\* <a n="..."> or <a>
StartA ==
    /\ phase = "parsing" /\ xml # <<>> /\ Top(xml) = "c" /\ g_nev < MaxEvents
    /\ \E attrs \in AttrsChoices :
          /\ pst' = startElement(pst, "a", attrs)
          /\ g_name' = IF "n" \in DOMAIN attrs THEN attrs["n"] ELSE "Unknown"
    /\ xml' = Append(xml, "a")
    /\ g_chunks' = <<>>
    /\ g_last' = "startA"
    /\ UNCHANGED <<ctor, phase, g_elem, g_raw, g_count>>
    /\ g_nev' = g_nev + 1
    /\ UNCHANGED <<jobs, grp, nodes, lrms>>

\* <s>, the typed value element inside an attribute
StartS ==
    /\ phase = "parsing" /\ xml # <<>> /\ Top(xml) = "a" /\ g_nev < MaxEvents
    /\ pst' = startElement(pst, "s", NoAttrs)
    /\ xml' = Append(xml, "s")
    /\ g_last' = "startS"
    /\ UNCHANGED <<ctor, phase, g_name, g_chunks, g_elem, g_raw, g_count>>
    /\ g_nev' = g_nev + 1
    /\ UNCHANGED <<jobs, grp, nodes, lrms>>

\* character data, inside any open element
Characters ==
    /\ phase = "parsing" /\ xml # <<>> /\ g_nev < MaxEvents
    /\ \E ch \in Chunks :
          /\ pst' = characters(pst, ch)
          /\ g_chunks' = IF "a" \in Range(xml) THEN Append(g_chunks, ch) ELSE g_chunks
    /\ g_last' = "characters"
    /\ UNCHANGED <<ctor, xml, phase, g_name, g_elem, g_raw, g_count>>
    /\ g_nev' = g_nev + 1
    /\ UNCHANGED <<jobs, grp, nodes, lrms>>

\* the end tag of the innermost open element
EndElement ==
    /\ phase = "parsing" /\ xml # <<>>
    /\ pst' = endElement(pst, Top(xml))
    /\ xml' = SubSeq(xml, 1, Len(xml) - 1)
    /\ g_last' = CASE Top(xml) = "c" -> "endC"
                    [] Top(xml) = "a" -> "endA"
                    [] Top(xml) = "s" -> "endS"
                    [] OTHER -> "endRoot"
    /\ IF Top(xml) = "a"
       THEN /\ g_elem' = Append(g_elem, <<g_name, Flatten(g_chunks)>>)
            /\ UNCHANGED <<g_raw, g_count>>
       ELSE IF Top(xml) = "c"
       THEN LET raw == RawDict(g_elem)
                ok  == ctor.idx \in DOMAIN raw /\ raw[ctor.idx] # <<>>
            IN  /\ g_raw' = IF ok THEN DictPut(g_raw, raw[ctor.idx], raw) ELSE g_raw
                /\ g_count' = IF ok THEN g_count + 1 ELSE g_count
                /\ UNCHANGED g_elem
       ELSE UNCHANGED <<g_elem, g_raw, g_count>>
    /\ UNCHANGED <<ctor, phase, g_name, g_chunks, g_nev>>
    /\ UNCHANGED <<jobs, grp, nodes, lrms>>

\* the end of the document, once the root element is closed
EndDocument ==
    /\ phase = "parsing" /\ xml = <<>> /\ g_last = "endRoot"
    /\ phase' = "parsed"
    /\ g_last' = "endDocument"
    /\ UNCHANGED <<ctor, pst, xml, g_name, g_chunks, g_elem, g_raw, g_count, g_nev>>
    /\ UNCHANGED <<jobs, grp, nodes, lrms>>

NextParser ==
    \/ StartDocument \/ StartRoot \/ StartC \/ StartA \/ StartS
    \/ Characters \/ EndElement \/ EndDocument

SpecParser == InitParser /\ [][NextParser]_vars

(***************************************************************************)
(* Properties of the Record Parser, stated over the history variables,     *)
(* which record the stream itself and not what the handler made of it.     *)
(***************************************************************************)
\* the attribute names a handler constructed with ctor is to retain
Retained(n) == ctor.attrlist = <<>> \/ n \in Range(ctor.attrlist) \/ n = ctor.idx

\* a record element's attributes, cut down to the retained ones
Filtered(raw) == [n \in {m \in DOMAIN raw : Retained(m)} |-> raw[n]]

\* C2, as the spec states it: after the parse the number of keys of the Record
\* Collection equals the number of record elements whose index attribute is
\* present and non-empty.
C2_KeysEqualRecordElements ==
    phase = "parsed" => Cardinality(DOMAIN pst.self.caInfo) = g_count

\* C2, amended: at every point of the parse and in the returned collection,
\* the keys are exactly the distinct non-empty index values carried by the
\* record elements closed so far (so their number is the number of distinct
\* such values); no key is empty, and a record element whose index attribute
\* is missing or empty adds nothing.
C2_KeysAreDistinctIndexValues ==
    phase # "new" =>
        /\ DOMAIN pst.self.caInfo = DOMAIN g_raw
        /\ Cardinality(DOMAIN pst.self.caInfo) = Cardinality(DOMAIN g_raw)
        /\ Cardinality(DOMAIN pst.self.caInfo) <= g_count
        /\ <<>> \notin DOMAIN pst.self.caInfo

\* C2's case: a finished parse of two record elements with the same non-empty
\* index value, read by a handler whose allow-list does not name the index
C2_Witness ==
    /\ phase = "parsed" /\ g_count = 2
    /\ Cardinality(DOMAIN pst.self.caInfo) = 1
    /\ ctor.attrlist = <<"State">>

\* C3: when record elements share a non-empty index value, the collection
\* maps it to exactly the record built from the last of them (its retained
\* attributes and nothing of the earlier ones).
C3_LastRecordWins ==
    phase # "new" =>
        \A k \in DOMAIN pst.self.caInfo :
            /\ k \in DOMAIN g_raw
            /\ pst.heap[pst.self.caInfo[k]] = Filtered(g_raw[k])

\* C3's case: two record elements with one index value, the first carrying a
\* State attribute the second lacks, and the second is the one stored
C3_Witness ==
    /\ phase = "parsed" /\ g_count = 2 /\ Len(pst.heap) = 2
    /\ \E k \in DOMAIN pst.self.caInfo :
          /\ DOMAIN pst.self.caInfo = {k}
          /\ pst.self.caInfo[k] = 2
          /\ "State" \in DOMAIN pst.heap[1]
          /\ "State" \notin DOMAIN pst.heap[2]
          /\ pst.heap[1][ctor.idx] = k

\* C4: with a non-empty allow-list every record of the collection has the
\* index attribute and no attribute outside the allow-list plus the index
\* attribute; with an empty allow-list a record has every attribute that
\* occurred in its record element.
C4_AttributeFilter ==
    phase # "new" =>
        \A k \in DOMAIN pst.self.caInfo :
            LET rec == pst.heap[pst.self.caInfo[k]]
            IN  /\ ctor.idx \in DOMAIN rec
                /\ ctor.attrlist # <<>> =>
                       DOMAIN rec \subseteq Range(ctor.attrlist) \cup {ctor.idx}
                /\ ctor.attrlist = <<>> => DOMAIN rec = DOMAIN g_raw[k]

\* C4's case: an allow-list without the index attribute, and a stored record
\* whose element carried an attribute outside the allow-list (an <a> without
\* n, named "Unknown")
C4_Witness ==
    /\ phase = "parsed" /\ ctor.attrlist = <<"State">>
    /\ \E k \in DOMAIN pst.self.caInfo :
          /\ "Unknown" \in DOMAIN g_raw[k]
          /\ "Name" \in DOMAIN pst.heap[pst.self.caInfo[k]]
          /\ "Unknown" \notin DOMAIN pst.heap[pst.self.caInfo[k]]

\* C5: the buffer is empty at attribute-start, holds the in-order
\* concatenation of the chunks received since while the attribute is open,
\* and that concatenation is the value committed at attribute-end.
C5_ValueIsConcatenation ==
    /\ g_last = "startA" => pst.self.attrInfo = <<>>
    /\ (phase = "parsing" /\ "a" \in Range(xml)) =>
           pst.self.attrInfo = Flatten(g_chunks)
    /\ (g_last = "endA" /\ Retained(g_name)) =>
           /\ g_name \in DOMAIN pst.heap[pst.self.curCaInfo]
           /\ pst.heap[pst.self.curCaInfo][g_name] = Flatten(g_chunks)

\* C5's case: an attribute whose text came in two different chunks,
\* committed after an earlier attribute of the same record element
C5_Witness ==
    /\ g_last = "endA" /\ Len(g_elem) = 2
    /\ g_chunks = << <<"x">>, <<"y">> >>
    /\ g_name \in DOMAIN pst.heap[pst.self.curCaInfo]
    /\ pst.heap[pst.self.curCaInfo][g_name] = <<"x", "y">>

\* the record the collection of a handler state holds under key k
Stored(st, k) == st.heap[st.self.caInfo[k]]

\* C18: no event changes the record stored under a key, but for a record-end
\* whose record element carries that key as its index value, which puts the
\* whole record of that element in its place; and a record-start leaves the
\* handler with an empty record in progress that is none of the stored ones.
C18_StoredRecordsFrozen ==
    [][ /\ "caInfo" \in DOMAIN pst.self =>
              \A k \in DOMAIN pst.self.caInfo :
                  \/ /\ k \in DOMAIN pst'.self.caInfo
                     /\ Stored(pst', k) = Stored(pst, k)
                  \/ /\ xml # <<>> /\ Top(xml) = "c" /\ Len(xml') < Len(xml)
                     /\ ctor.idx \in DOMAIN RawDict(g_elem)
                     /\ RawDict(g_elem)[ctor.idx] = k
                     /\ k \in DOMAIN pst'.self.caInfo
                     /\ Stored(pst', k) = Filtered(RawDict(g_elem))
        /\ (Len(xml') > Len(xml) /\ Top(xml') = "c") =>
              /\ pst'.heap[pst'.self.curCaInfo] = EmptyDict
              /\ \A k \in DOMAIN pst'.self.caInfo :
                    pst'.self.caInfo[k] # pst'.self.curCaInfo ]_vars

\* C18's case: a record was stored, a second record element was opened and
\* an attribute of it has been committed, and the stored record is still the
\* one its element carried
C18_Witness ==
    /\ phase = "parsing" /\ g_last = "endA" /\ Len(pst.heap) = 2
    /\ pst.self.curCaInfo = 2 /\ pst.heap[2] # EmptyDict
    /\ \E k \in DOMAIN pst.self.caInfo :
          /\ DOMAIN pst.self.caInfo = {k}
          /\ pst.self.caInfo[k] = 1
          /\ Stored(pst, k) = Filtered(g_raw[k])
          /\ Stored(pst, k) # pst.heap[2]

\* C19: at every point of a parse and in the returned collection every key
\* is a non-empty string, and the record stored under it has the index
\* attribute, whose value is the key.
C19_KeyIsIndexValue ==
    phase # "new" =>
        \A k \in DOMAIN pst.self.caInfo :
            /\ Len(k) > 0
            /\ \A i \in 1..Len(k) : k[i] \in {"x", "y"}
            /\ ctor.idx \in DOMAIN Stored(pst, k)
            /\ Stored(pst, k)[ctor.idx] = k

\* C19's case: a finished parse of a record element whose index attribute
\* is empty, which is not in the collection, and of one whose index
\* attribute is "x", which is stored under "x"
C19_Witness ==
    /\ phase = "parsed" /\ Len(pst.heap) = 2
    /\ ctor.idx \in DOMAIN pst.heap[1] /\ pst.heap[1][ctor.idx] = <<>>
    /\ DOMAIN pst.self.caInfo = {<<"x">>}
    /\ pst.self.caInfo[<<"x">>] = 2
    /\ pst.heap[2][ctor.idx] = <<"x">>

(***************************************************************************)
(* The aggregators' surroundings: the stream a command returns, as the     *)
(* SAX events parser.parse delivers for it, the commands, and the          *)
(* resolver vo_map.                                                        *)
(***************************************************************************)
Ev(type, name, attrs, ch) == [type |-> type, name |-> name, attrs |-> attrs, ch |-> ch]

\* one event handed to the content handler
Deliver(st, ev) ==
    CASE ev.type = "startDocument" -> startDocument(st)
      [] ev.type = "startElement"  -> startElement(st, ev.name, ev.attrs)
      [] ev.type = "characters"    -> characters(st, ev.ch)
      [] ev.type = "endElement"    -> endElement(st, ev.name)
      [] OTHER                     -> st

RECURSIVE Parse(_, _)
\* parser.parse(fp): the events of fp, delivered in document order up to the
\* place where the document stops being well-formed, if there is one (the
\* test on next makes TLC compute each handler state before it goes on to
\* the next event; a handler state always has attributes)
Parse(fp, st) ==
    IF fp = <<>> \/ Head(fp).type = "fatalError" THEN st
    ELSE LET next == Deliver(st, Head(fp))
         IN  IF DOMAIN next.self = {} THEN next ELSE Parse(Tail(fp), next)

\* parser.parse(fp) as it would be if the fault of a document were dropped
\* instead of raised
SAXParseException_dropped(fp) == FALSE

\* whether parser.parse(fp) raises SAXParseException: the parser's error
\* handler raises at the place where the document is not well-formed, and
\* neither parseCondorXml nor its callers catch it
SAXParseException(fp) == \E i \in 1..Len(fp) : fp[i].type = "fatalError"

\* parseCondorXml(fp, handler): the handler state after the parse
parseCondorXml(fp, handler) == Parse(fp, [self |-> handler, heap |-> <<>>])

\* the events of one <c> element; ad is the sequence of its <<name, text>>
\* attributes (an attribute without text gets no characters event)
AdEvents(ad) ==
    <<Ev("startElement", "c", NoAttrs, <<>>)>>
    \o Flatten([i \in 1..Len(ad) |->
           <<Ev("startElement", "a", [k \in {"n"} |-> ad[i][1]], <<>>)>>
           \o (IF ad[i][2] = <<>> THEN <<>>
               ELSE <<Ev("characters", "", NoAttrs, ad[i][2])>>)
           \o <<Ev("endElement", "a", NoAttrs, <<>>)>>])
    \o <<Ev("endElement", "c", NoAttrs, <<>>)>>

\* the events of the output of a condor_status -xml command listing ads
XmlEvents(ads) ==
    <<Ev("startDocument", "", NoAttrs, <<>>),
      Ev("startElement", "classads", NoAttrs, <<>>)>>
    \o Flatten([i \in 1..Len(ads) |-> AdEvents(ads[i])])
    \o <<Ev("endElement", "classads", NoAttrs, <<>>),
         Ev("endDocument", "", NoAttrs, <<>>)>>

\* the events of an output that lists ads and then stops being well-formed
\* (it breaks off, the root element unterminated)
BrokenXmlEvents(ads) ==
    <<Ev("startDocument", "", NoAttrs, <<>>),
      Ev("startElement", "classads", NoAttrs, <<>>)>>
    \o Flatten([i \in 1..Len(ads) |-> AdEvents(ads[i])])
    \o <<Ev("fatalError", "", NoAttrs, <<>>)>>

\* the command templates of lines 19-24; "%(group)s" is the conversion that
\* the % operator replaces
condor_version == <<"condor_version">>

condor_group == <<"condor_config_val GROUP_NAMES">>

condor_quota == <<"condor_config_val GROUP_QUOTA_group_", "%(group)s">>

condor_prio == <<"condor_config_val GROUP_PRIO_FACTOR_group_", "%(group)s">>

condor_status == <<"condor_status -xml">>

condor_job_status == <<"condor_status -submitter -xml">>

\* condorCommand: the command line it hands to runCommand (command % info
\* when info is a non-empty dict, command as it is otherwise)
condorCommand(command, info) ==
    IF info # EmptyDict
    THEN Flatten([i \in 1..Len(command) |->
             IF command[i] = "%(group)s" THEN info["group"] ELSE <<command[i]>>])
    ELSE command

\* the text "Not defined", which condor_config_val prints for an unset name
NotDefined == <<"N","o","t"," ","d","e","f","i","n","e","d">>

\* the quota and priority factor configured for each group of the pool
GroupConfig ==
    [g \in {<<"g","1">>, <<"g","2">>, <<"g","3">>} |->
        CASE g = <<"g","1">> -> [quota |-> <<"1","0","\n">>, prio |-> <<"2","\n">>]
          [] g = <<"g","2">> -> [quota |-> NotDefined \o <<"\n">>, prio |-> <<"3","\n">>]
          [] OTHER           -> [quota |-> <<"5">>, prio |-> <<"1",".","5","\n">>]]

\* runCommand(cmd): what the command prints in a pool where GROUP_NAMES
\* prints world.group_names, condor_version prints world.version_output and
\* condor_status lists world.ads (and breaks off after them when world.broken)
runCommand(cmd, world) ==
    CASE cmd = condor_group -> world.group_names
      [] cmd = condor_version -> world.version_output
      [] cmd \in {condor_status, condor_job_status}
           -> IF world.broken THEN BrokenXmlEvents(world.ads) ELSE XmlEvents(world.ads)
      [] \E g \in DOMAIN GroupConfig : cmd = condorCommand(condor_quota, [k \in {"group"} |-> g])
           -> GroupConfig[CHOOSE g \in DOMAIN GroupConfig :
                             cmd = condorCommand(condor_quota, [k \in {"group"} |-> g])].quota
      [] \E g \in DOMAIN GroupConfig : cmd = condorCommand(condor_prio, [k \in {"group"} |-> g])
           -> GroupConfig[CHOOSE g \in DOMAIN GroupConfig :
                             cmd = condorCommand(condor_prio, [k \in {"group"} |-> g])].prio
      [] OTHER -> NotDefined \o <<"\n">>

\* the resolver: user and group names that map to an organization; vo_map[n]
\* raises KeyError for every other n
vo_map ==
    [n \in {<<"a">>, <<"c">>, <<"d">>, <<"g","1">>, <<"g","2">>, <<"g","3">>} |->
        CASE n = <<"a">>     -> <<"V","O","1">>
          [] n = <<"c">>     -> <<"v","o","1">>
          [] n = <<"d">>     -> <<"v","o","2">>
          [] n = <<"g","1">> -> <<"v","o","1">>
          [] n = <<"g","2">> -> <<"v","o","1">>
          [] OTHER           -> <<"v","o","2">>]

(***************************************************************************)
(* getJobsInfo                                                             *)
(***************************************************************************)
\* ads in the output of condor_status -submitter -xml
MaxAds == 2

\* the allow-list getJobsInfo constructs its handler with
JobAttrs == <<"RunningJobs", "IdleJobs", "HeldJobs", "MaxJobsRunning">>

\* a summary entry as getJobsInfo creates it
NewJobInfo == [running |-> 0, idle |-> 0, held |-> 0, max_running |-> 0]

\* getJobsInfo.addIntInfo: the dict after the call, and the exception it
\* ends with: when int() raises, the except clause passes and line 218 reads
\* new_info, which was never bound in this call
addIntInfo(my_info_dict, classad_dict, my_key, classad_key) ==
    IF my_key \notin DOMAIN my_info_dict \/ classad_key \notin DOMAIN classad_dict
    THEN [dict |-> my_info_dict, exc |-> "none"]
    ELSE IF int_valid(classad_dict[classad_key])
    THEN [dict |-> [my_info_dict EXCEPT ![my_key] = @ + int(classad_dict[classad_key])],
          exc |-> "none"]
    ELSE [dict |-> my_info_dict, exc |-> "UnboundLocalError"]

\* the four addIntInfo calls of lines 232-235, in order, up to the first
\* that raises
AddAll(my_info, info) ==
    LET r1 == addIntInfo(my_info, info, "running", "RunningJobs")
        r2 == IF r1.exc = "none" THEN addIntInfo(r1.dict, info, "idle", "IdleJobs") ELSE r1
        r3 == IF r2.exc = "none" THEN addIntInfo(r2.dict, info, "held", "HeldJobs") ELSE r2
        r4 == IF r3.exc = "none"
              THEN addIntInfo(r3.dict, info, "max_running", "MaxJobsRunning") ELSE r3
    IN  r4

\* the loop body as it would be if a resolver failure were not caught
JobsLoopBody_unresolvedRaises(vo_jobs, user, info) ==
    LET name == split(user, "@")[1]
    IN  IF name \notin DOMAIN vo_map
        THEN [vo_jobs |-> vo_jobs, exc |-> "KeyError"]
        ELSE LET vo == lower(vo_map[name])
                 r  == AddAll(IF vo \in DOMAIN vo_jobs THEN vo_jobs[vo] ELSE NewJobInfo, info)
             IN  [vo_jobs |-> IF r.exc = "none" \/ vo \in DOMAIN vo_jobs
                              THEN DictPut(vo_jobs, vo, r.dict) ELSE vo_jobs,
                  exc |-> r.exc]

\* the loop body as it would be without .lower() in line 224
JobsLoopBody_noLower(vo_jobs, user, info) ==
    LET name == split(user, "@")[1]
    IN  IF name \notin DOMAIN vo_map
        THEN [vo_jobs |-> vo_jobs, exc |-> "none"]
        ELSE LET vo == vo_map[name]
                 r  == AddAll(IF vo \in DOMAIN vo_jobs THEN vo_jobs[vo] ELSE NewJobInfo, info)
             IN  [vo_jobs |-> IF r.exc = "none" \/ vo \in DOMAIN vo_jobs
                              THEN DictPut(vo_jobs, vo, r.dict) ELSE vo_jobs,
                  exc |-> r.exc]

\* one iteration of the loop of lines 220-236 for the item (user, info): the
\* summaries after it and the exception that ends the call, if any.  my_info
\* is the dict object stored in vo_jobs when the organization has an entry,
\* so what addIntInfo added before an exception is in vo_jobs already.
JobsLoopBody(vo_jobs, user, info) ==
    LET name == split(user, "@")[1]
    IN  IF name \notin DOMAIN vo_map
        THEN [vo_jobs |-> vo_jobs, exc |-> "none"]
        ELSE LET vo == lower(vo_map[name])
                 r  == AddAll(IF vo \in DOMAIN vo_jobs THEN vo_jobs[vo] ELSE NewJobInfo, info)
             IN  [vo_jobs |-> IF r.exc = "none" \/ vo \in DOMAIN vo_jobs
                              THEN DictPut(vo_jobs, vo, r.dict) ELSE vo_jobs,
                  exc |-> r.exc]

\* submitter names: two domains of user a (VO1), c (vo1), d without a domain
\* (vo2), b (unknown to the resolver), and the empty name
JobNames ==
    { <<"a","@","x">>, <<"a","@","y">>, <<"c","@","x">>, <<"d">>, <<"b","@","x">>, <<>> }

\* the tracked and untracked attributes a submitter ad may carry
JobProfiles ==
    { << <<"RunningJobs", <<"5">> >>, <<"IdleJobs", <<"b","a","d">> >> >>,
      << <<"RunningJobs", <<"5">> >>, <<"IdleJobs", <<"2">> >>,
         <<"HeldJobs", <<"1">> >>, <<"MaxJobsRunning", <<"7">> >> >>,
      << <<"Machine", <<"x">> >> >>,
      << <<"HeldJobs", <<" ","3","\n">> >>, <<"MaxJobsRunning", <<"+"," ","1","2">> >> >>,
      << <<"IdleJobs", <<>> >> >>,
      << <<"RunningJobs", <<"-","4">> >> >> }

\* the submitter ads a stream may hold
JobAdChoices ==
    { << <<"Name", n>> >> \o p : n \in JobNames, p \in JobProfiles }

\* the event-by-event parser's variables, unused by the aggregators
ParserUnused ==
    /\ ctor = [idx |-> "Name", attrlist |-> <<>>]
    /\ pst = [self |-> ClassAdParser("Name", <<>>), heap |-> <<>>]
    /\ xml = <<>>
    /\ phase = "unused"
    /\ g_name = "Unknown"
    /\ g_chunks = <<>>
    /\ g_elem = <<>>
    /\ g_raw = EmptyDict
    /\ g_count = 0
    /\ g_nev = 0
    /\ g_last = "init"

InitJobs ==
    /\ \E n \in 0..MaxAds : \E ads \in [1..n -> JobAdChoices] :
          jobs = [pc |-> "start", ads |-> ads, broken |-> FALSE, classads |-> EmptyDict,
                  pending |-> {}, vo_jobs |-> EmptyDict, user |-> <<>>, exc |-> "none"]
    /\ ParserUnused /\ grp = Idle /\ nodes = Idle /\ lrms = Idle

\* lines 206-210 and 219: run the command, construct the handler, parse (a
\* parse failure ends the call), start the summaries
JobsParse ==
    /\ jobs.pc = "start"
    /\ LET fp      == runCommand(condorCommand(condor_job_status, EmptyDict),
                                 [ads |-> jobs.ads, broken |-> jobs.broken])
           handler == ClassAdParser("Name", JobAttrs)
           st      == parseCondorXml(fp, handler)
       IN  IF SAXParseException(fp)
           THEN jobs' = [jobs EXCEPT !.pc = "failed", !.exc = "SAXParseException"]
           ELSE jobs' = [jobs EXCEPT !.pc = "loop", !.classads = getClassAds(st),
                                     !.pending = DOMAIN getClassAds(st),
                                     !.vo_jobs = EmptyDict]
    /\ UNCHANGED <<parserVars, grp, nodes, lrms>>

\* lines 220-236: one iteration; the dict's iteration order is not fixed
JobsIter ==
    /\ jobs.pc = "loop"
    /\ \E user \in jobs.pending :
          LET r == JobsLoopBody(jobs.vo_jobs, user, jobs.classads[user])
          IN  jobs' = [jobs EXCEPT !.pc = IF r.exc = "none" THEN "loop" ELSE "raised",
                                   !.vo_jobs = r.vo_jobs, !.exc = r.exc,
                                   !.user = user, !.pending = @ \ {user}]
    /\ UNCHANGED <<parserVars, grp, nodes, lrms>>

\* line 237
JobsReturn ==
    /\ jobs.pc = "loop" /\ jobs.pending = {}
    /\ jobs' = [jobs EXCEPT !.pc = "done"]
    /\ UNCHANGED <<parserVars, grp, nodes, lrms>>

NextJobs == JobsParse \/ JobsIter \/ JobsReturn

SpecJobs == InitJobs /\ [][NextJobs]_vars

(***************************************************************************)
(* Properties of the Job Aggregator.                                       *)
(***************************************************************************)
\* summary field and the ClassAd attribute added to it
Tracked ==
    { <<"running", "RunningJobs">>, <<"idle", "IdleJobs">>,
      <<"held", "HeldJobs">>, <<"max_running", "MaxJobsRunning">> }

\* the text before the first '@' of a submitter resolves
Resolvable(user) ==
    \E i \in 0..Len(user) :
        /\ SubSeq(user, 1, i) \in DOMAIN vo_map
        /\ \A j \in 1..i : user[j] # "@"
        /\ (i = Len(user) \/ user[i + 1] = "@")

\* the organization a resolvable submitter counts for
OrgOf(user) ==
    LET i == CHOOSE j \in 0..Len(user) :
                 /\ \A m \in 1..j : user[m] # "@"
                 /\ (j = Len(user) \/ user[j + 1] = "@")
        vo == vo_map[SubSeq(user, 1, i)]
    IN  \* the resolver's values in lower case, written out
        IF vo = <<"V","O","1">> THEN <<"v","o","1">> ELSE vo

\* what a record is to contribute to a field: the attribute's number, 0 when
\* the attribute is absent or is no number
Contribution(info, attr) ==
    IF attr \in DOMAIN info /\ int_valid(info[attr]) THEN int(info[attr]) ELSE 0

\* a record with a tracked attribute that is present and is no valid integer
HasBadField(info) ==
    \E p \in Tracked : p[2] \in DOMAIN info /\ ~int_valid(info[p[2]])

RECURSIVE SumOver(_, _, _)
\* the sum of an attribute's contributions over the records of the users
SumOver(users, classads, attr) ==
    IF users = {} THEN 0
    ELSE LET u == CHOOSE x \in users : TRUE
         IN  Contribution(classads[u], attr) + SumOver(users \ {u}, classads, attr)

\* a loop iteration has just handled jobs'.user
JobsIterated == jobs.pc = "loop" /\ jobs'.pending # jobs.pending

\* C1: when a record of a resolvable submitter has a tracked attribute that
\* is present but no valid integer, the iteration does not raise, leaves that
\* field as it was, and adds every valid tracked field of the record to the
\* organization's summary.
C1_BadFieldSkippedOthersAdded ==
    [][ (JobsIterated /\ Resolvable(jobs'.user)
            /\ HasBadField(jobs.classads[jobs'.user])) =>
          LET info == jobs.classads[jobs'.user]
              vo   == OrgOf(jobs'.user)
              old  == IF vo \in DOMAIN jobs.vo_jobs THEN jobs.vo_jobs[vo] ELSE NewJobInfo
          IN  /\ jobs'.pc # "raised"
              /\ vo \in DOMAIN jobs'.vo_jobs
              /\ \A p \in Tracked :
                    jobs'.vo_jobs[vo][p[1]] = old[p[1]] + Contribution(info, p[2]) ]_vars

\* C7: an iteration for a submitter whose name the resolver does not know
\* does not raise, changes no summary entry and creates none, and the loop
\* goes on with the remaining records.
C7_UnresolvableSkipped ==
    [][ (JobsIterated /\ ~Resolvable(jobs'.user)) =>
          /\ jobs'.pc = "loop"
          /\ jobs'.exc = "none"
          /\ jobs'.vo_jobs = jobs.vo_jobs
          /\ jobs'.pending = jobs.pending \ {jobs'.user} ]_vars

\* C7's case: the call returned a non-empty summary although the record
\* handled last was the one of b@x, whom the resolver does not know
C7_Witness ==
    /\ jobs.pc = "done"
    /\ jobs.user = <<"b","@","x">>
    /\ jobs.vo_jobs # EmptyDict

\* every tracked attribute present in the collection is a valid integer
AllValid(classads) == \A u \in DOMAIN classads : ~HasBadField(classads[u])

\* C8: when all tracked attributes present are valid integers the call does
\* not raise, and the summaries have an entry for organization o exactly when
\* a handled submitter resolves to o (lower-cased), each field being the sum
\* of its attribute over those submitters' records (absent counts as 0); in
\* particular in the returned summaries, where every record was handled.
C8_SumInvariant ==
    (jobs.pc \in {"loop", "done", "raised"} /\ AllValid(jobs.classads)) =>
        LET handled == {u \in (DOMAIN jobs.classads) \ jobs.pending : Resolvable(u)}
        IN  /\ jobs.pc # "raised"
            /\ jobs.pc = "done" => jobs.pending = {}
            /\ DOMAIN jobs.vo_jobs = {OrgOf(u) : u \in handled}
            /\ \A o \in DOMAIN jobs.vo_jobs : \A p \in Tracked :
                  jobs.vo_jobs[o][p[1]] =
                      SumOver({u \in handled : OrgOf(u) = o}, jobs.classads, p[2])

\* C8's case: a@x resolves to VO1 and c@x to vo1, both run 5 jobs, and the
\* returned entry vo1 counts 10
C8_Witness ==
    /\ jobs.pc = "done" /\ AllValid(jobs.classads)
    /\ DOMAIN jobs.classads = {<<"a","@","x">>, <<"c","@","x">>}
    /\ DOMAIN jobs.vo_jobs = {<<"v","o","1">>}
    /\ jobs.vo_jobs[<<"v","o","1">>].running = 10

\* C15: every field of a Job summary entry is zero when the entry is created
\* and no step of the call decreases it: after an iteration each field of
\* each entry is at least what it was before (zero for an entry the
\* iteration created).  The fields of a Group summary entry are added to in
\* the same way.
C15_FieldsNeverDecrease ==
    [][ JobsIterated =>
          \A vo \in DOMAIN jobs'.vo_jobs : \A p \in Tracked :
              jobs'.vo_jobs[vo][p[1]] >=
                  (IF vo \in DOMAIN jobs.vo_jobs THEN jobs.vo_jobs[vo][p[1]] ELSE 0) ]_vars

(***************************************************************************)
(* getGroupInfo                                                            *)
(***************************************************************************)
\* comma-separated segments in the output of the group-list command
MaxGroups == 2

\* a summary entry as getGroupInfo creates it
NewGroupInfo == [quota |-> 0, prio |-> 0]

\* the test of lines 171-172 as it would be without its sentinel half
HasGroups_noSentinel(output) == Len(strip(output[1])) > 0

\* the test of lines 171-172 on the split output
HasGroups(output) ==
    /\ ~startswith(strip(output[1]), NotDefined)
    /\ Len(strip(output[1])) > 0

\* lines 179-189 as they would be with one try statement around both
\* additions (a quota that is no integer then skips the priority as well)
GroupAccumulate_oneTry(retval, group, quota, prio) ==
    IF group \notin DOMAIN vo_map
    THEN [retval |-> retval, exc |-> "KeyError"]
    ELSE LET vo == vo_map[group]
             c0 == IF vo \in DOMAIN retval THEN retval[vo] ELSE NewGroupInfo
             c1 == IF int_valid(quota) THEN [c0 EXCEPT !.quota = @ + int(quota)] ELSE c0
             c2 == IF int_valid(quota) /\ int_valid(prio)
                   THEN [c1 EXCEPT !.prio = @ + int(prio)] ELSE c1
         IN  [retval |-> DictPut(retval, vo, c2), exc |-> "none"]

\* lines 179-189 for one group: the summaries after them, and the KeyError
\* of vo_map[group], which nothing catches
GroupAccumulate(retval, group, quota, prio) ==
    IF group \notin DOMAIN vo_map
    THEN [retval |-> retval, exc |-> "KeyError"]
    ELSE LET vo == vo_map[group]
             c0 == IF vo \in DOMAIN retval THEN retval[vo] ELSE NewGroupInfo
             c1 == IF int_valid(quota) THEN [c0 EXCEPT !.quota = @ + int(quota)] ELSE c0
             c2 == IF int_valid(prio) THEN [c1 EXCEPT !.prio = @ + int(prio)] ELSE c1
         IN  [retval |-> DictPut(retval, vo, c2), exc |-> "none"]

\* the segments the group-list output is made of
SegChoices ==
    { <<"g","1">>, <<" ","g","2">>, <<"g","3","\n">>, <<"z","z">>, <<"d">>,
      <<>>, <<" ">>, NotDefined, <<" ">> \o NotDefined \o <<"\n">> }

RECURSIVE Join(_, _)
\* sep.join(segs)
Join(segs, sep) ==
    IF Len(segs) = 0 THEN <<>>
    ELSE IF Len(segs) = 1 THEN segs[1]
    ELSE segs[1] \o <<sep>> \o Join(Tail(segs), sep)

InitGroups ==
    /\ \E n \in 1..MaxGroups : \E segs \in [1..n -> SegChoices] :
          grp = [pc |-> "start", group_names |-> Join(segs, ","), output |-> <<>>,
                 i |-> 0, group |-> <<>>, quota |-> <<>>, prio |-> <<>>,
                 retval |-> EmptyDict, cmds |-> <<>>, exc |-> "none"]
    /\ ParserUnused /\ jobs = Idle /\ nodes = Idle /\ lrms = Idle

\* lines 169-172 as they would be if retval were not a new dict in every
\* call (a dict made once, such as a default argument's)
GroupList_summaryKept ==
    /\ grp.pc = "start"
    /\ LET cmd    == condorCommand(condor_group, EmptyDict)
           output == split(runCommand(cmd, grp), ",")
       IN  grp' = [grp EXCEPT !.cmds = Append(@, cmd), !.output = output,
                              !.i = IF HasGroups(output) THEN 1 ELSE 0,
                              !.pc = IF HasGroups(output) THEN "quota" ELSE "done"]
    /\ UNCHANGED <<parserVars, jobs, nodes, lrms>>

\* lines 169-172: run the group-list command, split its output, test it
GroupList ==
    /\ grp.pc = "start"
    /\ LET cmd    == condorCommand(condor_group, EmptyDict)
           output == split(runCommand(cmd, grp), ",")
       IN  grp' = [grp EXCEPT !.cmds = Append(@, cmd), !.output = output,
                              !.retval = EmptyDict,
                              !.i = IF HasGroups(output) THEN 1 ELSE 0,
                              !.pc = IF HasGroups(output) THEN "quota" ELSE "done"]
    /\ UNCHANGED <<parserVars, jobs, nodes, lrms>>

\* lines 173-176: the next group, trimmed, and its quota query
GroupQuota ==
    /\ grp.pc = "quota"
    /\ LET group == strip(grp.output[grp.i])
           cmd   == condorCommand(condor_quota, [k \in {"group"} |-> group])
       IN  grp' = [grp EXCEPT !.group = group, !.cmds = Append(@, cmd),
                              !.quota = strip(runCommand(cmd, grp)), !.pc = "prio"]
    /\ UNCHANGED <<parserVars, jobs, nodes, lrms>>

\* lines 177-178: its priority query
GroupPrio ==
    /\ grp.pc = "prio"
    /\ LET cmd == condorCommand(condor_prio, [k \in {"group"} |-> grp.group])
       IN  grp' = [grp EXCEPT !.cmds = Append(@, cmd),
                              !.prio = strip(runCommand(cmd, grp)), !.pc = "accumulate"]
    /\ UNCHANGED <<parserVars, jobs, nodes, lrms>>

\* lines 179-190 as they would be if the loop went on with the next group
\* after a resolver error
GroupResolve_continuesAfterError ==
    /\ grp.pc = "accumulate"
    /\ LET r == GroupAccumulate(grp.retval, grp.group, grp.quota, grp.prio)
       IN  grp' = [grp EXCEPT !.retval = r.retval, !.exc = r.exc,
                              !.i = @ + 1,
                              !.pc = IF grp.i = Len(grp.output) THEN "done" ELSE "quota"]
    /\ UNCHANGED <<parserVars, jobs, nodes, lrms>>

\* lines 179-190: resolve the group and accumulate; then the next group, or
\* the return when this was the last
GroupResolve ==
    /\ grp.pc = "accumulate"
    /\ LET r == GroupAccumulate(grp.retval, grp.group, grp.quota, grp.prio)
       IN  grp' = [grp EXCEPT !.retval = r.retval, !.exc = r.exc,
                              !.i = IF r.exc = "none" THEN @ + 1 ELSE @,
                              !.pc = IF r.exc # "none" THEN "raised"
                                     ELSE IF grp.i = Len(grp.output) THEN "done"
                                     ELSE "quota"]
    /\ UNCHANGED <<parserVars, jobs, nodes, lrms>>

NextGroups == GroupList \/ GroupQuota \/ GroupPrio \/ GroupResolve

SpecGroups == InitGroups /\ [][NextGroups]_vars

(***************************************************************************)
(* Properties of the Group Aggregator.                                     *)
(***************************************************************************)
\* the per-group commands getGroupInfo is to issue for a segment
GroupQueries(seg) ==
    << <<"condor_config_val GROUP_QUOTA_group_">> \o strip(seg),
       <<"condor_config_val GROUP_PRIO_FACTOR_group_">> \o strip(seg) >>

\* C9: when the group-list output begins with "Not defined", or is empty
\* after trimming, the call neither raises nor issues any command but the
\* group-list command, and it returns an empty summary.
C9_SentinelSkipsQueries ==
    (startswith(grp.group_names, NotDefined) \/ strip(grp.group_names) = <<>>) =>
        /\ grp.pc \in {"start", "done"}
        /\ grp.retval = EmptyDict
        /\ grp.pc = "done" => grp.cmds = <<condor_group>>

\* C9's case: the command printed "Not defined" followed by more text, and
\* the call returned after the one group-list command
C9_Witness ==
    /\ grp.pc = "done"
    /\ startswith(grp.group_names, NotDefined)
    /\ Len(grp.group_names) > Len(NotDefined)
    /\ grp.cmds = <<condor_group>>
    /\ grp.retval = EmptyDict

\* C10: when the group-list output neither begins with "Not defined" nor is
\* empty after trimming, a call that returns has issued the quota and the
\* priority query of every comma-separated segment, in order, and returns a
\* summary that is not empty, whatever the first segment is.  Stated for the
\* outputs that hold a configured group, so that what is at stake is a real
\* group; the sentinel is looked for in the trimmed output, the reading of
\* "begins with" that agrees with the code on leading white space.
C10_EverySegmentProcessed ==
    (/\ grp.pc = "done"
     /\ ~startswith(strip(grp.group_names), NotDefined)
     /\ strip(grp.group_names) # <<>>
     /\ \E i \in 1..Len(split(grp.group_names, ",")) :
           strip(split(grp.group_names, ",")[i]) \in DOMAIN GroupConfig) =>
        /\ grp.cmds = <<condor_group>>
              \o Flatten([i \in 1..Len(split(grp.group_names, ",")) |->
                     GroupQueries(split(grp.group_names, ",")[i])])
        /\ grp.retval # EmptyDict

\* the group-list output passes the test of lines 171-172: its first
\* segment, trimmed, is not empty and does not begin with "Not defined"
GroupsListed ==
    LET first == strip(split(grp.group_names, ",")[1])
    IN  first # <<>> /\ ~startswith(first, NotDefined)

\* the listed group names: the segments of the group-list output, trimmed
ListedGroups ==
    [j \in 1..Len(split(grp.group_names, ",")) |-> strip(split(grp.group_names, ",")[j])]

\* C11: when the group-list output is neither the "Not defined" answer nor
\* empty and one of the names it lists (a segment that is not blank) is
\* unknown to the resolver, the call never returns a summary: it ends with
\* the resolver's KeyError, earlier groups having been accumulated or not.
C11_UnresolvableGroupPropagates ==
    (/\ ~startswith(strip(grp.group_names), NotDefined)
     /\ strip(grp.group_names) # <<>>
     /\ \E j \in 1..Len(ListedGroups) :
           ListedGroups[j] # <<>> /\ ListedGroups[j] \notin DOMAIN vo_map) =>
        /\ grp.pc # "done"
        /\ grp.pc = "raised" => grp.exc = "KeyError"

\* what the pool prints for a group's quota or priority factor
ConfiguredText(group, field) ==
    IF group \in DOMAIN GroupConfig THEN GroupConfig[group][field]
    ELSE NotDefined \o <<"\n">>

\* what a group is to contribute to a field: the number printed for it, 0
\* when what is printed is no integer
GroupContribution(group, field) ==
    IF int_valid(ConfiguredText(group, field)) THEN int(ConfiguredText(group, field)) ELSE 0

RECURSIVE GroupSum(_, _, _)
\* the sum of the contributions to a field of the first n listed groups that
\* resolve to organization vo
GroupSum(n, vo, field) ==
    IF n = 0 THEN 0
    ELSE GroupSum(n - 1, vo, field)
           + (IF ListedGroups[n] \in DOMAIN vo_map /\ vo_map[ListedGroups[n]] = vo
              THEN GroupContribution(ListedGroups[n], field) ELSE 0)

\* the number of listed groups the loop has resolved and accumulated
Accumulated == IF grp.i = 0 THEN 0 ELSE grp.i - 1

\* C12: at every point of the call the summaries have an entry for exactly
\* the organizations of the groups accumulated so far, whose quota is the sum
\* of the quotas printed for those groups that are integers and whose prio is
\* the sum of the priority factors printed that are integers: an output that
\* is no integer adds nothing to its own field, does not keep the other field
\* from being added, and does not raise (the call raises only for a group
\* the resolver does not know); an organization whose groups printed no
\* integer at all has an entry of zeros.
C12_FieldsAddedIndependently ==
    grp.pc # "start" =>
        /\ DOMAIN grp.retval = {vo_map[ListedGroups[j]] : j \in 1..Accumulated}
        /\ \A vo \in DOMAIN grp.retval :
              /\ grp.retval[vo].quota = GroupSum(Accumulated, vo, "quota")
              /\ grp.retval[vo].prio = GroupSum(Accumulated, vo, "prio")
        /\ grp.pc = "raised" => ListedGroups[grp.i] \notin DOMAIN vo_map
        /\ (grp.pc = "done" /\ GroupsListed) => Accumulated = Len(ListedGroups)

\* C12's case: g2 prints "Not defined" for its quota and 3 for its priority
\* factor and is the only group of vo1; d prints no integer at all and is the
\* only group of vo2
C12_Witness ==
    /\ grp.pc = "done"
    /\ ListedGroups = << <<"g","2">>, <<"d">> >>
    /\ DOMAIN grp.retval = {<<"v","o","1">>, <<"v","o","2">>}
    /\ grp.retval[<<"v","o","1">>] = [quota |-> 0, prio |-> 3]
    /\ grp.retval[<<"v","o","2">>] = [quota |-> 0, prio |-> 0]

\* the commands issued once the first n listed groups were queried
CommandsFor(n) ==
    <<condor_group>> \o Flatten([j \in 1..n |-> GroupQueries(ListedGroups[j])])

\* the first n listed groups have been resolved and accumulated
AccumulatedUpTo(n) ==
    \A j \in 1..n :
        /\ ListedGroups[j] \in DOMAIN vo_map
        /\ vo_map[ListedGroups[j]] \in DOMAIN grp.retval

\* C17: the commands are issued one at a time and in this order: the
\* group-list command; then for each listed group in list order its quota
\* query, its priority query, and then its resolution and accumulation.  When
\* a query of group i is issued, the groups before i have been accumulated
\* and no command of a later group has been issued; after a resolver error
\* the commands are those up to the failing group and none is added.
C17_CommandsInOrder ==
    /\ grp.pc = "start" => grp.cmds = <<>>
    /\ grp.pc = "quota" => grp.cmds = CommandsFor(grp.i - 1) /\ AccumulatedUpTo(grp.i - 1)
    /\ grp.pc = "prio" =>
          /\ grp.cmds = Append(CommandsFor(grp.i - 1), GroupQueries(ListedGroups[grp.i])[1])
          /\ AccumulatedUpTo(grp.i - 1)
    /\ grp.pc = "accumulate" => grp.cmds = CommandsFor(grp.i) /\ AccumulatedUpTo(grp.i - 1)
    /\ grp.pc = "raised" =>
          /\ grp.cmds = CommandsFor(grp.i) /\ AccumulatedUpTo(grp.i - 1)
          /\ ListedGroups[grp.i] \notin DOMAIN vo_map
    /\ grp.pc = "done" => grp.cmds = CommandsFor(Accumulated) /\ AccumulatedUpTo(Accumulated)

\* C17's case: the call returned after the five commands of two groups
C17_Witness ==
    /\ grp.pc = "done"
    /\ ListedGroups = << <<"g","1">>, <<"g","3">> >>
    /\ Len(grp.cmds) = 5
    /\ grp.cmds[4] = <<"condor_config_val GROUP_QUOTA_group_", "g", "3">>
    /\ grp.cmds[5] = <<"condor_config_val GROUP_PRIO_FACTOR_group_", "g", "3">>
    /\ DOMAIN grp.retval = {<<"v","o","1">>, <<"v","o","2">>}

(***************************************************************************)
(* parseNodes                                                              *)
(***************************************************************************)
\* machine ads in the output of condor_status -xml
MaxNodes == 4

Claimed == <<"C","l","a","i","m","e","d">>

Unclaimed == <<"U","n","c","l","a","i","m","e","d">>

Owner == <<"O","w","n","e","r">>

\* the loop body as it would be if Owner machines were subtracted whatever
\* subtract_owner says
NodesLoopBody_alwaysSubtract(counts, subtract, info) ==
    LET t == [counts EXCEPT !.total = @ + 1]
    IN  IF "State" \notin DOMAIN info THEN t
        ELSE IF info["State"] = Claimed THEN [t EXCEPT !.claimed = @ + 1]
        ELSE IF info["State"] = Unclaimed THEN [t EXCEPT !.unclaimed = @ + 1]
        ELSE IF info["State"] = Owner THEN [t EXCEPT !.total = @ - 1]
        ELSE t

\* the loop body as it would be if the subtraction were a statement of its
\* own that did not test the State
NodesLoopBody_subtractEveryState(counts, subtract, info) ==
    LET t == [counts EXCEPT !.total = @ + 1]
        u == IF "State" \notin DOMAIN info THEN t
             ELSE IF info["State"] = Claimed THEN [t EXCEPT !.claimed = @ + 1]
             ELSE IF info["State"] = Unclaimed THEN [t EXCEPT !.unclaimed = @ + 1]
             ELSE t
    IN  IF "State" \in DOMAIN info /\ subtract THEN [u EXCEPT !.total = @ - 1] ELSE u

\* lines 254-262: the counts after one iteration for a machine's record
NodesLoopBody(counts, subtract, info) ==
    LET t == [counts EXCEPT !.total = @ + 1]
    IN  IF "State" \notin DOMAIN info THEN t
        ELSE IF info["State"] = Claimed THEN [t EXCEPT !.claimed = @ + 1]
        ELSE IF info["State"] = Unclaimed THEN [t EXCEPT !.unclaimed = @ + 1]
        ELSE IF subtract /\ info["State"] = Owner THEN [t EXCEPT !.total = @ - 1]
        ELSE t

\* what the i-th machine ad of a stream may be: an ad named after i with one
\* of four states or none, or an ad without a Name
NodeAdChoices(i) ==
    LET name == <<"Name", <<"n", Digits[i + 1]>> >>
    IN  { <<name, <<"State", Claimed>> >>, <<name, <<"State", Unclaimed>> >>,
          <<name, <<"State", Owner>> >>, <<name, <<"State", <<"B","u","s","y">> >> >>,
          <<name>>, << <<"State", Owner>> >> }

InitNodes ==
    /\ \E n \in 0..MaxNodes : \E subtract \in BOOLEAN :
       \E ads \in {a \in [1..n -> UNION {NodeAdChoices(i) : i \in 1..n}] :
                      \A i \in 1..n : a[i] \in NodeAdChoices(i)} :
          nodes = [pc |-> "start", ads |-> ads, broken |-> FALSE,
                   subtract_owner |-> subtract,
                   classads |-> EmptyDict, pending |-> {}, machine |-> <<>>,
                   counts |-> [total |-> 0, claimed |-> 0, unclaimed |-> 0],
                   exc |-> "none"]
    /\ ParserUnused /\ jobs = Idle /\ grp = Idle /\ lrms = Idle

\* lines 246-252: read the flag, run the command, parse (a parse failure
\* ends the call), zero the counts
NodesParse ==
    /\ nodes.pc = "start"
    /\ LET fp      == runCommand(condorCommand(condor_status, EmptyDict),
                                 [ads |-> nodes.ads, broken |-> nodes.broken])
           handler == ClassAdParser("Name", <<"State">>)
           st      == parseCondorXml(fp, handler)
       IN  IF SAXParseException(fp)
           THEN nodes' = [nodes EXCEPT !.pc = "failed", !.exc = "SAXParseException"]
           ELSE nodes' = [nodes EXCEPT !.pc = "loop", !.classads = getClassAds(st),
                              !.pending = DOMAIN getClassAds(st),
                              !.counts = [total |-> 0, claimed |-> 0, unclaimed |-> 0]]
    /\ UNCHANGED <<parserVars, jobs, grp, lrms>>

\* lines 253-262: one iteration; the dict's iteration order is not fixed
NodesIter ==
    /\ nodes.pc = "loop"
    /\ \E machine \in nodes.pending :
          nodes' = [nodes EXCEPT
                       !.counts = NodesLoopBody(@, nodes.subtract_owner,
                                                nodes.classads[machine]),
                       !.machine = machine, !.pending = @ \ {machine}]
    /\ UNCHANGED <<parserVars, jobs, grp, lrms>>

\* line 263
NodesReturn ==
    /\ nodes.pc = "loop" /\ nodes.pending = {}
    /\ nodes' = [nodes EXCEPT !.pc = "done"]
    /\ UNCHANGED <<parserVars, jobs, grp, lrms>>

NextNodes == NodesParse \/ NodesIter \/ NodesReturn

SpecNodes == InitNodes /\ [][NextNodes]_vars

(***************************************************************************)
(* Properties of the Node Aggregator.                                      *)
(***************************************************************************)
\* the machines of the collection whose State is the given text
InState(classads, state) ==
    {m \in DOMAIN classads : "State" \in DOMAIN classads[m] /\ classads[m]["State"] = state}

\* C6: the returned triple has claimed = the number of records with State
\* Claimed, unclaimed = the number with State Unclaimed, and total = the
\* number of records, less the number with State Owner when subtract_owner
\* is true; a record with no State or another State counts in total only.
C6_NodeCounts ==
    nodes.pc = "done" =>
        /\ nodes.counts.claimed = Cardinality(InState(nodes.classads, Claimed))
        /\ nodes.counts.unclaimed = Cardinality(InState(nodes.classads, Unclaimed))
        /\ nodes.counts.total =
              Cardinality(DOMAIN nodes.classads)
              - (IF nodes.subtract_owner
                 THEN Cardinality(InState(nodes.classads, Owner)) ELSE 0)

\* C6's case, the spec's example: machines Claimed, Unclaimed, Owner and
\* one without State, with subtract_owner true, give (3, 1, 1)
C6_Witness ==
    /\ nodes.pc = "done" /\ nodes.subtract_owner
    /\ DOMAIN nodes.classads = {<<"n","1">>, <<"n","2">>, <<"n","3">>, <<"n","4">>}
    /\ InState(nodes.classads, Claimed) = {<<"n","1">>}
    /\ InState(nodes.classads, Unclaimed) = {<<"n","2">>}
    /\ InState(nodes.classads, Owner) = {<<"n","3">>}
    /\ DOMAIN nodes.classads[<<"n","4">>] = {"Name"}
    /\ nodes.counts = [total |-> 3, claimed |-> 1, unclaimed |-> 1]

\* C20: at the start of the fold, after each record it has processed and in
\* the returned triple, claimed and unclaimed are not negative and together
\* do not exceed total, whatever subtract_owner is and whatever the States
\* are.
C20_CountsBounded ==
    /\ 0 <= nodes.counts.claimed
    /\ 0 <= nodes.counts.unclaimed
    /\ nodes.counts.claimed + nodes.counts.unclaimed <= nodes.counts.total

\* C20's case: with subtract_owner true every machine is in state Owner, and
\* the returned triple is (0, 0, 0)
C20_Witness ==
    /\ nodes.pc = "done" /\ nodes.subtract_owner
    /\ Cardinality(DOMAIN nodes.classads) = 3
    /\ InState(nodes.classads, Owner) = DOMAIN nodes.classads
    /\ nodes.counts = [total |-> 0, claimed |-> 0, unclaimed |-> 0]

(***************************************************************************)
(* SpecCalls: one of the three aggregators, called and, once the call has  *)
(* ended, called a second time in the same process with the same pool,     *)
(* resolver and configuration.  The stream of condor_status may break off  *)
(* after the ads it lists.                                                 *)
(***************************************************************************)
\* ads of a stream, or segments of the group-list output, of a call
MaxItems == 3

\* the submitter ads of these calls: a and c (both vo1) and b (unknown), with
\* all four fields valid or with an IdleJobs that is no integer
CallJobAds ==
    { << <<"Name", n>> >> \o p :
        n \in { <<"a","@","x">>, <<"c","@","x">>, <<"b","@","x">> },
        p \in { << <<"RunningJobs", <<"5">> >>, <<"IdleJobs", <<"2">> >>,
                   <<"HeldJobs", <<"1">> >>, <<"MaxJobsRunning", <<"7">> >> >>,
                << <<"RunningJobs", <<"5">> >>, <<"IdleJobs", <<"b","a","d">> >> >> } }

\* the segments of the group-list output of these calls
CallSegs == { <<"g","1">>, <<" ","g","2">>, <<"g","3","\n">>, <<"z","z">> }

\* what a call ended with: how it ended, the value it returned if it
\* returned, the exception it raised if it raised
JobsOutcome ==
    [pc |-> jobs.pc, exc |-> jobs.exc,
     value |-> IF jobs.pc = "done" THEN jobs.vo_jobs ELSE EmptyDict]

GroupsOutcome ==
    [pc |-> grp.pc, exc |-> grp.exc,
     value |-> IF grp.pc = "done" THEN grp.retval ELSE EmptyDict]

NodesOutcome ==
    [pc |-> nodes.pc, exc |-> nodes.exc,
     value |-> IF nodes.pc = "done" THEN nodes.counts
               ELSE [total |-> 0, claimed |-> 0, unclaimed |-> 0]]

NoOutcome == [pc |-> "none", exc |-> "none", value |-> EmptyDict]

InitCalls ==
    /\ ParserUnused /\ lrms = Idle
    /\ \E n \in 0..MaxItems :
          \/ /\ \E ads \in [1..n -> CallJobAds] : \E broken \in BOOLEAN :
                   jobs = [pc |-> "start", ads |-> ads, broken |-> broken,
                           classads |-> EmptyDict, pending |-> {}, vo_jobs |-> EmptyDict,
                           user |-> <<>>, exc |-> "none", run |-> 1, first |-> NoOutcome]
             /\ grp = Idle /\ nodes = Idle
          \/ /\ \E subtract \in BOOLEAN : \E broken \in BOOLEAN :
                \E ads \in {a \in [1..n -> UNION {NodeAdChoices(i) : i \in 1..n}] :
                               \A i \in 1..n : a[i] \in NodeAdChoices(i)} :
                   nodes = [pc |-> "start", ads |-> ads, broken |-> broken,
                            subtract_owner |-> subtract,
                            classads |-> EmptyDict, pending |-> {}, machine |-> <<>>,
                            counts |-> [total |-> 0, claimed |-> 0, unclaimed |-> 0],
                            exc |-> "none", run |-> 1, first |-> NoOutcome]
             /\ jobs = Idle /\ grp = Idle
          \/ /\ n > 0
             /\ \E segs \in [1..n -> CallSegs] :
                   grp = [pc |-> "start", group_names |-> Join(segs, ","), output |-> <<>>,
                          i |-> 0, group |-> <<>>, quota |-> <<>>, prio |-> <<>>,
                          retval |-> EmptyDict, cmds |-> <<>>, exc |-> "none",
                          run |-> 1, first |-> NoOutcome]
             /\ jobs = Idle /\ nodes = Idle

\* getJobsInfo is called again: a new frame, in which no local variable is
\* bound yet (what the model's fields hold of the first call is what a local
\* variable would hold if it outlived the call)
JobsAgain ==
    /\ jobs.pc \in {"done", "raised", "failed"} /\ jobs.run = 1
    /\ jobs' = [jobs EXCEPT !.pc = "start", !.exc = "none", !.run = 2,
                            !.first = JobsOutcome]
    /\ UNCHANGED <<parserVars, grp, nodes, lrms>>

\* getGroupInfo is called again
GroupsAgain ==
    /\ grp.pc \in {"done", "raised"} /\ grp.run = 1
    /\ grp' = [grp EXCEPT !.pc = "start", !.exc = "none", !.run = 2, !.cmds = <<>>,
                          !.first = GroupsOutcome]
    /\ UNCHANGED <<parserVars, jobs, nodes, lrms>>

\* parseNodes is called again
NodesAgain ==
    /\ nodes.pc \in {"done", "failed"} /\ nodes.run = 1
    /\ nodes' = [nodes EXCEPT !.pc = "start", !.exc = "none", !.run = 2,
                              !.first = NodesOutcome]
    /\ UNCHANGED <<parserVars, jobs, grp, lrms>>

NextCalls ==
    \/ JobsParse \/ JobsIter \/ JobsReturn \/ JobsAgain
    \/ GroupList \/ GroupQuota \/ GroupPrio \/ GroupResolve \/ GroupsAgain
    \/ NodesParse \/ NodesIter \/ NodesReturn \/ NodesAgain

SpecCalls == InitCalls /\ [][NextCalls]_vars

\* C13: when the stream of condor_status breaks off, however many complete
\* ads came before, a call of getJobsInfo or of parseNodes never gets to its
\* loop or its return: it ends with the parser's SAXParseException and
\* returns neither a summary nor counts.
C13_ParseFailureEndsCall ==
    /\ (jobs.pc # "idle" /\ jobs.broken) =>
          /\ jobs.pc \in {"start", "failed"}
          /\ jobs.pc = "failed" => jobs.exc = "SAXParseException"
          /\ JobsOutcome.value = EmptyDict
    /\ (nodes.pc # "idle" /\ nodes.broken) =>
          /\ nodes.pc \in {"start", "failed"}
          /\ nodes.pc = "failed" => nodes.exc = "SAXParseException"
    /\ (jobs.pc = "failed" => jobs.broken) /\ (nodes.pc = "failed" => nodes.broken)

\* C13's case: the stream broke off after two complete ads of resolvable
\* submitters with valid fields, and getJobsInfo ended with the failure
C13_Witness ==
    /\ jobs.pc = "failed" /\ jobs.exc = "SAXParseException"
    /\ Len(jobs.ads) = 2
    /\ jobs.ads[1][1][2] = <<"a","@","x">> /\ jobs.ads[2][1][2] = <<"c","@","x">>
    /\ Len(jobs.ads[1]) = 5 /\ Len(jobs.ads[2]) = 5

\* C14: the second of two calls of an aggregator on the same input ends as
\* the first did: with the same returned value, or with the same exception.
C14_SecondCallSameResult ==
    /\ (jobs.pc \in {"done", "raised", "failed"} /\ jobs.run = 2) => JobsOutcome = jobs.first
    /\ (grp.pc \in {"done", "raised"} /\ grp.run = 2) => GroupsOutcome = grp.first
    /\ (nodes.pc \in {"done", "failed"} /\ nodes.run = 2) => NodesOutcome = nodes.first

\* C14's case: getGroupInfo returned for the second time, with the sums of
\* g1 and g2 as in the first call
C14_Witness ==
    /\ grp.pc = "done" /\ grp.run = 2
    /\ grp.first.pc = "done"
    /\ grp.retval = grp.first.value
    /\ DOMAIN grp.retval = {<<"v","o","1">>}
    /\ grp.retval[<<"v","o","1">>] = [quota |-> 10, prio |-> 5]

(***************************************************************************)
(* getLrmsInfo                                                             *)
(***************************************************************************)
\* lines in the output of condor_version
MaxLines == 3

RECURSIVE readlines(_)
\* the lines a loop over a file object gets: each up to and with its "\n",
\* the last one as far as the text goes
readlines(s) ==
    IF s = <<>> THEN <<>>
    ELSE IF \E i \in 1..Len(s) : s[i] = "\n"
    THEN LET i == CHOOSE j \in 1..Len(s) : s[j] = "\n" /\ \A m \in 1..(j-1) : s[m] # "\n"
         IN  <<SubSeq(s, 1, i)>> \o readlines(SubSeq(s, i + 1, Len(s)))
    ELSE <<s>>

\* "$CondorVersion:"
CondorVersion == <<"$","C","o","n","d","o","r","V","e","r","s","i","o","n",":">>

\* line 152 as it would be without .strip()
LrmsVersion_untrimmed(line) == SubSeq(line, 16, Len(line))

\* line 152: line[15:].strip()
LrmsVersion(line) == strip(SubSeq(line, 16, Len(line)))

\* the lines condor_version may print
LineChoices ==
    { CondorVersion \o <<" ","7",".","4",".","2"," ","$","\n">>,
      <<"$","C","o","n","d","o","r","P","l","a","t","f","o","r","m",":"," ","X","8","6"," ","$","\n">>,
      CondorVersion \o <<"8","\n">>,
      <<" ">> \o CondorVersion \o <<" ","9","\n">>,
      <<"\n">>,
      CondorVersion,
      <<"$","c","o","n","d","o","r","v","e","r","s","i","o","n",":"," ","1","\n">> }

InitLrms ==
    /\ \E n \in 0..MaxLines : \E ls \in [1..n -> LineChoices] :
          lrms = [pc |-> "start", version_output |-> Flatten(ls), lines |-> <<>>, i |-> 0,
                  retval |-> <<>>, exc |-> "none", logged |-> FALSE]
    /\ ParserUnused /\ jobs = Idle /\ grp = Idle /\ nodes = Idle

\* line 150: run condor_version; the loop is over the lines of its output
LrmsRun ==
    /\ lrms.pc = "start"
    /\ lrms' = [lrms EXCEPT !.pc = "scan", !.i = 1,
                            !.lines = readlines(runCommand(
                                          condorCommand(condor_version, EmptyDict), lrms))]
    /\ UNCHANGED <<parserVars, jobs, grp, nodes>>

\* lines 150-152: the next line; return when it starts with the prefix
LrmsLine ==
    /\ lrms.pc = "scan" /\ lrms.i <= Len(lrms.lines)
    /\ LET line == lrms.lines[lrms.i]
       IN  IF startswith(line, CondorVersion)
           THEN lrms' = [lrms EXCEPT !.pc = "done", !.retval = LrmsVersion(line)]
           ELSE lrms' = [lrms EXCEPT !.i = @ + 1]
    /\ UNCHANGED <<parserVars, jobs, grp, nodes>>

\* lines 153-155: no line is left; log the ValueError and raise it
LrmsRaise ==
    /\ lrms.pc = "scan" /\ lrms.i > Len(lrms.lines)
    /\ lrms' = [lrms EXCEPT !.pc = "raised", !.exc = "ValueError", !.logged = TRUE]
    /\ UNCHANGED <<parserVars, jobs, grp, nodes>>

NextLrms == LrmsRun \/ LrmsLine \/ LrmsRaise

SpecLrms == InitLrms /\ [][NextLrms]_vars

(***************************************************************************)
(* Properties of the version query, stated over the text condor_version    *)
(* printed.                                                                *)
(***************************************************************************)
\* the positions of the text at which a line starts with "$CondorVersion:"
VersionLines(text) ==
    {p \in 1..Len(text) :
        /\ (p = 1 \/ text[p - 1] = "\n")
        /\ Len(text) >= p + 14
        /\ \A k \in 1..15 : text[p + k - 1] = CondorVersion[k]}

\* what follows the prefix at position p, up to the end of its line
AfterPrefix(text, p) ==
    LET ends == {q \in (p + 15)..Len(text) : text[q] = "\n"}
        last == IF ends = {} THEN Len(text)
                ELSE CHOOSE q \in ends : \A r \in ends : q <= r
    IN  SubSeq(text, p + 15, last)

\* r is rest without the white space at its two ends
IsTrimmed(r, rest) ==
    /\ r # <<>> => (r[1] \notin Whitespace /\ r[Len(r)] \notin Whitespace)
    /\ \E i \in 0..Len(rest) : \E j \in i..Len(rest) :
          /\ r = SubSeq(rest, i + 1, j)
          /\ \A k \in (1..i) \cup ((j + 1)..Len(rest)) : rest[k] \in Whitespace

\* C16: the call returns exactly when some line of the output starts with
\* "$CondorVersion:", and then returns what follows the prefix on the first
\* such line, without the white space at its ends; when no line starts with
\* it, the call logs a ValueError and ends with it, and returns nothing.
C16_FirstVersionLine ==
    LET text  == lrms.version_output
        found == VersionLines(text)
    IN  /\ lrms.pc = "done" =>
              /\ found # {}
              /\ IsTrimmed(lrms.retval,
                           AfterPrefix(text, CHOOSE p \in found : \A q \in found : p <= q))
              /\ lrms.exc = "none" /\ ~lrms.logged
        /\ lrms.pc = "raised" =>
              /\ found = {}
              /\ lrms.exc = "ValueError" /\ lrms.logged
              /\ lrms.retval = <<>>
        /\ (lrms.pc = "scan" /\ lrms.i > Len(lrms.lines)) => found = {}

\* C16's case: the platform line comes first, two version lines follow, and
\* the call returned the version of the first of them
C16_Witness ==
    /\ lrms.pc = "done"
    /\ Len(lrms.lines) = 3
    /\ ~startswith(lrms.lines[1], CondorVersion)
    /\ startswith(lrms.lines[2], CondorVersion)
    /\ lrms.lines[3] = CondorVersion \o <<"8","\n">>
    /\ lrms.retval = <<"7",".","4",".","2"," ","$">>

====
